---- MODULE Spec2Model ----
(***************************************************************************)
(* The wizard of src/unnamed/part_000 (class Wizard) driving the           *)
(* StateMachineController of ./stateController and a WizardForm of         *)
(* ./wizardForm.  The Wizard is translated from its source; the controller *)
(* and the form are not part of the sources at hand and follow sections    *)
(* 4.5 and 6 of the design document.                                       *)
(*                                                                         *)
(* One run() of one Wizard instance is modelled.  The only suspension      *)
(* point of a run is `await prompter.promptControl()`, so a behaviour is   *)
(* a sequence of: calls made before run(), Run (up to the first prompt),   *)
(* Respond (a prompt settles; the step finishes, the controller applies    *)
(* its result and the next step runs up to its prompt, or run() resolves), *)
(* interleaved with reads and writes of the `cache` property (SpecCache),  *)
(* with calls of the pending step's estimator (SpecEstimate), or ended by  *)
(* a prompter that throws (SpecThrow); SpecLive is the run in which every  *)
(* prompt settles.                                                         *)
(***************************************************************************)
EXTENDS Integers, Sequences, FiniteSets, TLC

\* ---------------------------------------------------------------- bounds
NProps == 3          \* properties of the form, in the form's iteration order
NVals == 2           \* distinct answers a prompt can give
MaxPromptSteps == 2  \* largest Prompter.totalSteps
MaxOffset == 2       \* cap of the running step offset

Props == 1..NProps
Values == 1..NVals
None == 0                    \* JavaScript undefined
X == 1                       \* the answer "x" a conditional property waits for
DefaultValue == 2 * NVals + 1   \* the value a declared default supplies
ExitStepId == 0              \* this.exitStep
NoStep == 0 - 1
NoOffset == <<>>             \* stepCache.stepOffset === undefined

\* the four WizardControl objects, told apart by identity
WIZARD_FORCE_EXIT == -1
WIZARD_EXIT == -2
WIZARD_BACK == -3
WIZARD_RETRY == -4

\* PromptResult<T>: a value, undefined, or a WizardControl
Controls == {WIZARD_FORCE_EXIT, WIZARD_EXIT, WIZARD_BACK, WIZARD_RETRY}
Responses == Values \cup {None} \cup Controls

EmptyState == [p \in Props |-> None]
AbsentCache == [present |-> FALSE, picked |-> None, stepOffset |-> NoOffset]
NewCache == [present |-> TRUE, picked |-> None, stepOffset |-> NoOffset]

VARIABLES
    options,      \* WizardOptions and the bound form: fixed at construction
    running,      \* Wizard.running
    caches,       \* Wizard.caches; during a run its entries are the step caches
    boundSteps,   \* keys of Wizard.boundSteps
    stepOffset,   \* Wizard._stepOffset
    ctrl,         \* the StateMachineController
    prompter,     \* the prompter whose promptControl() is pending
    pc,           \* "idle" (before run), "prompting", "done" (run resolved),
                  \* "rejected" (run rejected)
    result,       \* what run() resolved with
    last,         \* the prompt that settled last and what the step did with it
    scen,         \* how far the run has followed the answer-Back-answer script
    cacheCall,    \* the latest read or write of Wizard.cache and its outcome
    estimator,    \* the private state copy of the pending step's estimator
    parentEstimator,  \* whether Wizard._estimator is set
    estimate      \* the latest call of the estimator and what it returned

vars == <<options, running, caches, boundSteps, stepOffset, ctrl, prompter, pc,
          result, last, scen, cacheCall, estimator, parentEstimator, estimate>>

\* ------------------------------------------------------- wizard constants
\* WIZARD_BACK constructed with the tag of WIZARD_RETRY
ControlTypeBackAsRetry(response) ==
    CASE response = WIZARD_FORCE_EXIT -> "Exit"
      [] response = WIZARD_EXIT -> "Exit"
      [] response = WIZARD_BACK -> "Retry"
      [] response = WIZARD_RETRY -> "Retry"

\* export const WIZARD_* = new WizardControl(ControlSignal.*)
ControlType(response) ==
    CASE response = WIZARD_FORCE_EXIT -> "Exit"
      [] response = WIZARD_EXIT -> "Exit"
      [] response = WIZARD_BACK -> "Back"
      [] response = WIZARD_RETRY -> "Retry"

IsWizardControl(obj) == obj \in Controls

IsValidResponse(response) == response # None /\ ~IsWizardControl(response)

\* shouldDispose without WIZARD_EXIT in its list
ShouldDisposeNoExit(signal) == signal \in {WIZARD_BACK, WIZARD_FORCE_EXIT}

ShouldDispose(signal) == signal \in {WIZARD_EXIT, WIZARD_BACK, WIZARD_FORCE_EXIT}

\* ------------------------------------------------------------------ form
\* canShowProperty(key, state, assignedSet): the visibility predicate of key
\* applyDefaults(state, assignedSet): declared defaults for unset, unassigned keys
SetDefault(prop) == IF prop = 2 THEN DefaultValue ELSE None

ApplyDefaults(state, assigned) ==
    [p \in Props |->
        IF state[p] = None /\ p \notin assigned /\ SetDefault(p) # None
        THEN SetDefault(p)
        ELSE state[p]]

\* canShowProperty(key, state, assignedSet): the visibility predicate of key;
\* "ifDefault" shows the property while the second property is left to its
\* default, that is while it is neither answered nor assigned
CanShowProperty(prop, state, assigned) ==
    CASE options.showWhen[prop] = "always" -> TRUE
      [] options.showWhen[prop] = "ifX" -> state[1] = X
      [] options.showWhen[prop] = "ifDefault" ->
            ApplyDefaults(state, assigned)[2] = DefaultValue

\* ------------------------------------------------------------ controller
SeqToSet(s) == {s[i] : i \in 1..Len(s)}

HistorySteps(c) == {c.history[i].step : i \in 1..Len(c.history)}

ContainsStep(c, step) ==
    step \in SeqToSet(c.steps) \/ step = c.current \/ step \in HistorySteps(c)

CtrlCurrentStep(c) == Len(c.history) + 1

CtrlTotalSteps(c) == Len(c.history) + Len(c.steps) + 1

NewController ==
    [steps |-> <<>>, history |-> <<>>, current |-> NoStep, state |-> EmptyState,
     status |-> "Idle"]

\* one iteration of run(): the result of the step that just executed
CtrlApply(c, res) ==
    LET merged == [c EXCEPT !.state = res.nextState,
                            !.steps = res.nextSteps \o @,
                            !.current = NoStep]
        aborted == [merged EXCEPT !.steps = <<>>, !.status = "Aborted"]
    IN  CASE res.controlSignal = "Exit" -> aborted
          [] res.controlSignal = "Back" ->
                IF c.history = <<>>
                THEN aborted
                ELSE LET h == c.history[Len(c.history)]
                     IN  [merged EXCEPT
                            !.history = SubSeq(c.history, 1, Len(c.history) - 1),
                            !.steps = <<h.step>> \o @,
                            !.state = h.state]
          [] res.controlSignal = "Retry" ->
                [merged EXCEPT !.steps = <<c.current>> \o @]
          [] OTHER ->
                [merged EXCEPT
                    !.history = Append(@, [step |-> c.current, state |-> c.state])]

\* the head of the loop: stop on an empty queue, else pop the front step
CtrlNext(c) ==
    IF c.status # "Running" THEN c
    ELSE IF c.steps = <<>> THEN [c EXCEPT !.status = "Completed"]
    ELSE [c EXCEPT !.current = Head(c.steps), !.steps = Tail(c.steps)]

\* ---------------------------------------------------------------- wizard
WizardCurrentStep(offset, c) == offset[1] + CtrlCurrentStep(c)

\* totalSteps reading the current-step component of the offset
WizardTotalStepsWrongIndex(offset, c) == offset[1] + CtrlTotalSteps(c)

WizardTotalSteps(offset, c) == offset[2] + CtrlTotalSteps(c)

GetAssigned(c, bound) == {key \in bound : ContainsStep(c, key)}

RECURSIVE ResolveFrom(_, _, _, _, _, _)
ResolveFrom(prop, c, bound, state, currentlyAssigned, nextSteps) ==
    IF prop > NProps THEN nextSteps
    ELSE IF /\ prop \in bound
            /\ CanShowProperty(prop, state, currentlyAssigned)
            /\ ~ContainsStep(c, prop)
         THEN ResolveFrom(prop + 1, c, bound, state,
                          currentlyAssigned \cup {prop}, Append(nextSteps, prop))
         ELSE ResolveFrom(prop + 1, c, bound, state, currentlyAssigned, nextSteps)

\* resolveNextSteps without the containsStep test
RECURSIVE ResolveFromAll(_, _, _, _, _, _)
ResolveFromAll(prop, c, bound, state, currentlyAssigned, nextSteps) ==
    IF prop > NProps THEN nextSteps
    ELSE IF prop \in bound /\ CanShowProperty(prop, state, currentlyAssigned)
         THEN ResolveFromAll(prop + 1, c, bound, state,
                             currentlyAssigned \cup {prop}, Append(nextSteps, prop))
         ELSE ResolveFromAll(prop + 1, c, bound, state, currentlyAssigned, nextSteps)

ResolveNextStepsNoContains(c, bound, state, assigned) ==
    ResolveFromAll(1, c, bound, state, assigned, <<>>)

\* resolveNextSteps putting each step it finds in front (unshift for push)
ResolveNextStepsReversed(c, bound, state, assigned) ==
    LET branch == ResolveFrom(1, c, bound, state, assigned, <<>>)
    IN  [i \in 1..Len(branch) |-> branch[Len(branch) + 1 - i]]

ResolveNextSteps(c, bound, state, assigned) ==
    ResolveFrom(1, c, bound, state, assigned, <<>>)

\* options.implicitState: the first property comes with a pre-supplied answer
ImplicitState(prop) == IF prop = 1 THEN NVals ELSE None

\* assignSteps: bind every property that has a provider; createBoundStep
\* takes (or creates) the property's cache
AssignSteps(bound) == bound \cup {p \in Props : options.provider[p]}

BindCaches(table, bound) ==
    [p \in Props |-> IF p \in bound /\ ~table[p].present THEN NewCache ELSE table[p]]

\* Prompter.recentItem once the user picked `answer`: the picked item, which
\* is not the answer itself
RecentItemOf(answer) == answer + NVals

\* promptUser seeding recentItem from the implied response first
PromptUserBeforeImpliedFirst(cache, offset, c, impliedResponse, total) ==
    LET restored == IF cache.stepOffset # NoOffset THEN cache.stepOffset ELSE offset
    IN  [cache |-> [cache EXCEPT !.stepOffset = restored],
         offset |-> restored,
         prompter |-> [step |-> c.current,
                       steps |-> [current |-> WizardCurrentStep(restored, c),
                                  total |-> WizardTotalSteps(restored, c)],
                       recentItem |-> IF impliedResponse # None THEN impliedResponse
                                      ELSE IF cache.picked # None THEN cache.picked
                                      ELSE None,
                       totalSteps |-> total]]

\* promptUser not restoring the offset saved in the step cache
PromptUserBeforeNoRestore(cache, offset, c, impliedResponse, total) ==
    [cache |-> [cache EXCEPT !.stepOffset = offset],
     offset |-> offset,
     prompter |-> [step |-> c.current,
                   steps |-> [current |-> WizardCurrentStep(offset, c),
                              total |-> WizardTotalSteps(offset, c)],
                   recentItem |-> IF cache.picked # None THEN cache.picked
                                  ELSE IF impliedResponse # None THEN impliedResponse
                                  ELSE None,
                   totalSteps |-> total]]

\* promptUser up to `await prompter.promptControl()`
PromptUserBefore(cache, offset, c, impliedResponse, total) ==
    LET restored == IF cache.stepOffset # NoOffset THEN cache.stepOffset ELSE offset
    IN  [cache |-> [cache EXCEPT !.stepOffset = restored],
         offset |-> restored,
         prompter |-> [step |-> c.current,
                       steps |-> [current |-> WizardCurrentStep(restored, c),
                                  total |-> WizardTotalSteps(restored, c)],
                       recentItem |-> IF cache.picked # None THEN cache.picked
                                      ELSE IF impliedResponse # None THEN impliedResponse
                                      ELSE None,
                       totalSteps |-> total]]

\* promptUser keeping the first picked (picked ??= recentItem)
PromptUserAfterKeepPicked(cache, offset, c, answer, recentItem, total) ==
    [cache |-> IF IsValidResponse(answer)
               THEN [cache EXCEPT !.picked = IF @ # None THEN @ ELSE recentItem]
               ELSE [cache EXCEPT !.stepOffset = NoOffset],
     disposed |-> IF /\ ~IsValidResponse(answer)
                     /\ WizardCurrentStep(offset, c) = 1
                     /\ ShouldDispose(answer)
                  THEN 1 ELSE 0,
     offset |-> <<offset[1] + total - 1, offset[2] + total - 1>>]

\* promptUser after the prompt settled with `answer`
PromptUserAfter(cache, offset, c, answer, recentItem, total) ==
    [cache |-> IF IsValidResponse(answer)
               THEN [cache EXCEPT !.picked = recentItem]
               ELSE [cache EXCEPT !.stepOffset = NoOffset],
     disposed |-> IF /\ ~IsValidResponse(answer)
                     /\ WizardCurrentStep(offset, c) = 1
                     /\ ShouldDispose(answer)
                  THEN 1 ELSE 0,
     offset |-> <<offset[1] + total - 1, offset[2] + total - 1>>]

\* the bound step returning no controlSignal
BoundStepResultNoSignal(c, bound, prop, response) ==
    IF response = WIZARD_EXIT /\ options.exitPrompter
    THEN [nextState |-> c.state, nextSteps |-> <<ExitStepId>>, controlSignal |-> "None"]
    ELSE LET nextState == IF IsValidResponse(response)
                          THEN [c.state EXCEPT ![prop] = response]
                          ELSE c.state
         IN  [nextState |-> nextState,
              nextSteps |-> ResolveNextSteps(c, bound, nextState, GetAssigned(c, bound)),
              controlSignal |-> "None"]

\* the bound step building nextState on the view handed to the prompter
\* (the state with the defaults applied) instead of the state itself
BoundStepResultFromView(c, bound, prop, response) ==
    IF response = WIZARD_EXIT /\ options.exitPrompter
    THEN [nextState |-> c.state, nextSteps |-> <<ExitStepId>>, controlSignal |-> "None"]
    ELSE LET view == ApplyDefaults(c.state, GetAssigned(c, bound))
             nextState == IF IsValidResponse(response)
                          THEN [view EXCEPT ![prop] = response]
                          ELSE view
         IN  [nextState |-> nextState,
              nextSteps |-> ResolveNextSteps(c, bound, nextState, GetAssigned(c, bound)),
              controlSignal |-> IF IsWizardControl(response)
                                THEN ControlType(response) ELSE "None"]

\* the bound step resolving the next steps before the answer is written
BoundStepResultStaleResolve(c, bound, prop, response) ==
    IF response = WIZARD_EXIT /\ options.exitPrompter
    THEN [nextState |-> c.state, nextSteps |-> <<ExitStepId>>, controlSignal |-> "None"]
    ELSE [nextState |-> IF IsValidResponse(response)
                        THEN [c.state EXCEPT ![prop] = response]
                        ELSE c.state,
          nextSteps |-> ResolveNextSteps(c, bound, c.state, GetAssigned(c, bound)),
          controlSignal |-> IF IsWizardControl(response)
                            THEN ControlType(response) ELSE "None"]

\* the bound step asking again (Retry) when the prompt gave undefined
BoundStepResultRetryUndefined(c, bound, prop, response) ==
    IF response = WIZARD_EXIT /\ options.exitPrompter
    THEN [nextState |-> c.state, nextSteps |-> <<ExitStepId>>, controlSignal |-> "None"]
    ELSE LET nextState == IF IsValidResponse(response)
                          THEN [c.state EXCEPT ![prop] = response]
                          ELSE c.state
         IN  [nextState |-> nextState,
              nextSteps |-> ResolveNextSteps(c, bound, nextState, GetAssigned(c, bound)),
              controlSignal |-> IF IsWizardControl(response) THEN ControlType(response)
                                ELSE IF response = None THEN "Retry" ELSE "None"]

\* the bound step telling Exit by the signal's type, not by the constant
BoundStepResultExitByType(c, bound, prop, response) ==
    IF IsWizardControl(response) /\ ControlType(response) = "Exit" /\ options.exitPrompter
    THEN [nextState |-> c.state, nextSteps |-> <<ExitStepId>>, controlSignal |-> "None"]
    ELSE LET nextState == IF IsValidResponse(response)
                          THEN [c.state EXCEPT ![prop] = response]
                          ELSE c.state
         IN  [nextState |-> nextState,
              nextSteps |-> ResolveNextSteps(c, bound, nextState, GetAssigned(c, bound)),
              controlSignal |-> IF IsWizardControl(response)
                                THEN ControlType(response) ELSE "None"]

\* the bound step without the branch to the exit step
BoundStepResultNoExitStep(c, bound, prop, response) ==
    LET nextState == IF IsValidResponse(response)
                     THEN [c.state EXCEPT ![prop] = response]
                     ELSE c.state
    IN  [nextState |-> nextState,
         nextSteps |-> ResolveNextSteps(c, bound, nextState, GetAssigned(c, bound)),
         controlSignal |-> IF IsWizardControl(response)
                           THEN ControlType(response) ELSE "None"]

\* what the bound step of `prop` returns for `response`
BoundStepResult(c, bound, prop, response) ==
    IF response = WIZARD_EXIT /\ options.exitPrompter
    THEN [nextState |-> c.state, nextSteps |-> <<ExitStepId>>, controlSignal |-> "None"]
    ELSE LET nextState == IF IsValidResponse(response)
                          THEN [c.state EXCEPT ![prop] = response]
                          ELSE c.state
         IN  [nextState |-> nextState,
              nextSteps |-> ResolveNextSteps(c, bound, nextState, GetAssigned(c, bound)),
              controlSignal |-> IF IsWizardControl(response)
                                THEN ControlType(response) ELSE "None"]

\* createExitStep: the prompter is shown the wizard's step numbers
ExitStepBefore(offset, c) ==
    [step |-> ExitStepId,
     steps |-> [current |-> WizardCurrentStep(offset, c),
                total |-> WizardTotalSteps(offset, c)],
     recentItem |-> None,
     totalSteps |-> 1]

\* the answers of the exit prompter, a Prompter<boolean>
ExitTrue == 1
ExitFalse == 2

DidExit(response) == response \in {ExitTrue, WIZARD_EXIT, WIZARD_FORCE_EXIT}

ExitStepResult(c, response) ==
    [nextState |-> c.state, nextSteps |-> <<>>,
     controlSignal |-> IF DidExit(response) THEN "Exit" ELSE "Back"]

\* Wizard._estimator when a parent wizard set it: the steps the parent still
\* has to ask for a state of this wizard
ParentEstimator(state) == IF state[1] = X THEN 2 ELSE 1

\* the estimator without its test of the response
StepEstimatorNoGuard(c, bound, state, prop, hasParent, response) ==
    LET set == [state EXCEPT ![prop] = response]
        estimate_ == Len(ResolveNextSteps(c, bound, set, {prop}))
        parentEstimate == IF hasParent THEN ParentEstimator(set) ELSE 0
    IN  [value |-> estimate_ + parentEstimate,
         state |-> [set EXCEPT ![prop] = None]]

\* the estimator that does not unset the property after the lookahead
StepEstimatorNoRestore(c, bound, state, prop, hasParent, response) ==
    IF response # None /\ ~IsValidResponse(response)
    THEN [value |-> 0, state |-> state]
    ELSE LET set == [state EXCEPT ![prop] = response]
             estimate_ == Len(ResolveNextSteps(c, bound, set, {prop}))
             parentEstimate == IF hasParent THEN ParentEstimator(set) ELSE 0
         IN  [value |-> estimate_ + parentEstimate, state |-> set]

\* createStepEstimator: the closure over `state`, its private copy of the
\* state, called with `response`; what it returns and what it leaves in `state`
StepEstimator(c, bound, state, prop, hasParent, response) ==
    IF response # None /\ ~IsValidResponse(response)
    THEN [value |-> 0, state |-> state]
    ELSE LET set == [state EXCEPT ![prop] = response]
             estimate_ == Len(ResolveNextSteps(c, bound, set, {prop}))
             parentEstimate == IF hasParent THEN ParentEstimator(set) ELSE 0
         IN  [value |-> estimate_ + parentEstimate,
              state |-> [set EXCEPT ![prop] = None]]

\* ------------------------------------------------------------ the run
Kinds == {"always", "ifX"}

\* the forms and options a Wizard is constructed with: properties 1..n have a
\* prompter provider, the second property is shown always or only once the
\* first was answered "x", the others always, and the prompters of the first
\* two properties may take several steps
FormOptions ==
    {o \in [showWhen : [Props -> Kinds],
            provider : [Props -> BOOLEAN],
            totalSteps : [Props -> 1..MaxPromptSteps],
            exitPrompter : BOOLEAN] :
        /\ o.showWhen[1] = "always"
        /\ \E n \in 2..NProps : \A p \in Props : o.provider[p] = (p <= n)
        /\ \A p \in Props : p # 2 => o.showWhen[p] = "always"
        /\ \A p \in Props : (p > 2 \/ ~o.provider[p]) => o.totalSteps[p] = 1}

Offsets == {<<0, 0>>, <<1, 2>>}

CacheTables ==
    {[p \in Props |-> AbsentCache],
     [p \in Props |-> IF p = 1 THEN [NewCache EXCEPT !.picked = NVals] ELSE AbsentCache]}

NoPrompter ==
    [step |-> NoStep, steps |-> [current |-> 0, total |-> 0], recentItem |-> None,
     totalSteps |-> 1]

\* last: step and response of the prompt that settled last, the recentItem
\* its prompter ended with, how often the prompter was disposed, the step
\* number it was shown, the lengths of the history and the queue when it
\* settled, whether it was the first prompt of the run, whether any prompter
\* so far took several steps, the offset run() started with, and per
\* property the recentItem of its latest valid answer; the total it was
\* shown; for a Retry the state and the history the step ran with; for an
\* answer or undefined the queue left pending and the steps the step returned;
\* per property the step number shown at its latest prompt if that prompt was
\* answered validly; for a declined exit confirmation the step that asked for
\* it and the state that step ran with
NoLast ==
    [step |-> NoStep, response |-> None, recentItem |-> None, disposed |-> 0,
     current |-> 0, histLen |-> 0, queueLen |-> 0, first |-> FALSE,
     multi |-> FALSE, base |-> <<0, 0>>, picks |-> [p \in Props |-> None],
     total |-> 0, state |-> EmptyState, history |-> <<>>, pending |-> <<>>,
     revealed |-> <<>>, shown |-> [p \in Props |-> 0], from |-> NoStep]

NoScen == [n |-> 0, v1 |-> None, v2 |-> None, w |-> None]

NoCall ==
    [op |-> "none", threw |-> FALSE, at |-> "idle",
     before |-> [p \in Props |-> AbsentCache],
     table |-> [p \in Props |-> AbsentCache]]

NoResult == [defined |-> FALSE, state |-> EmptyState]

\* estimate: the response the estimator was called with, what it returned,
\* and the controller, the caches and the offset as they were before the call
NoEstimate == [called |-> FALSE, response |-> None, value |-> 0, before |-> <<>>]

\* a Wizard as its constructor leaves it
Constructed ==
    /\ running = FALSE
    /\ caches = [p \in Props |-> AbsentCache]
    /\ boundSteps = {}
    /\ stepOffset = <<0, 0>>
    /\ ctrl = NewController
    /\ prompter = NoPrompter
    /\ pc = "idle"
    /\ result = NoResult
    /\ last = NoLast
    /\ scen = NoScen
    /\ cacheCall = NoCall
    /\ estimator = EmptyState
    /\ parentEstimator = FALSE
    /\ estimate = NoEstimate

Init == options \in FormOptions /\ Constructed

\* public set stepOffset(offset), called before run()
SetStepOffset(offset) ==
    /\ pc = "idle"
    /\ stepOffset' = offset
    /\ UNCHANGED <<options, running, caches, boundSteps, ctrl, prompter, pc, result,
                   last, scen, cacheCall, estimator, parentEstimator, estimate>>

\* public get cache(): throws while the wizard is running
CacheGet(isRunning) == [threw |-> isRunning]

\* the setter assigning before it tests this.running
CacheSetAssignFirst(isRunning, current, table) ==
    [threw |-> isRunning, caches |-> table]

\* public set cache(cache): throws while the wizard is running
CacheSet(isRunning, current, table) ==
    [threw |-> isRunning, caches |-> IF isRunning THEN current ELSE table]

GetCache ==
    /\ cacheCall' = [op |-> "get", threw |-> CacheGet(running).threw, at |-> pc,
                     before |-> caches, table |-> caches]
    /\ UNCHANGED <<options, running, caches, boundSteps, stepOffset, ctrl, prompter,
                   pc, result, last, scen, estimator, parentEstimator, estimate>>

SetCache(table) ==
    /\ cacheCall' = [op |-> "set", threw |-> CacheSet(running, caches, table).threw,
                     at |-> pc, before |-> caches, table |-> table]
    /\ caches' = CacheSet(running, caches, table).caches
    /\ UNCHANGED <<options, running, boundSteps, stepOffset, ctrl, prompter, pc,
                   result, last, scen, estimator, parentEstimator, estimate>>

\* the step popped by the controller runs up to its prompt
StartStep(c, table, offset) ==
    IF c.current = ExitStepId
    THEN [caches |-> table, offset |-> offset, prompter |-> ExitStepBefore(offset, c)]
    ELSE LET b == PromptUserBefore(table[c.current], offset, c,
                                   ImplicitState(c.current),
                                   options.totalSteps[c.current])
         IN  [caches |-> [table EXCEPT ![c.current] = b.cache],
              offset |-> b.offset,
              prompter |-> b.prompter]

\* the controller loops on: the next step is shown, or run() resolves
Continue(c, bound, table, offset) ==
    IF c.status = "Running"
    THEN LET s == StartStep(c, table, offset)
         IN  /\ s.offset[1] + s.prompter.totalSteps - 1 <= MaxOffset
             /\ s.offset[2] + s.prompter.totalSteps - 1 <= MaxOffset
             /\ caches' = s.caches
             /\ stepOffset' = s.offset
             /\ prompter' = s.prompter
             /\ estimator' = IF c.current \in Props THEN c.state ELSE EmptyState
             /\ pc' = "prompting"
             /\ running' = TRUE
             /\ UNCHANGED result
    ELSE /\ caches' = table
         /\ stepOffset' = offset
         /\ prompter' = NoPrompter
         /\ estimator' = EmptyState
         /\ pc' = "done"
         /\ running' = FALSE
         /\ result' = IF c.status = "Completed"
                      THEN [defined |-> TRUE,
                            state |-> ApplyDefaults(c.state, GetAssigned(c, bound))]
                      ELSE NoResult

\* run(): bind the steps, add the steps resolved for the initial state to the
\* controller in their order, start the controller
RunStart(bound) ==
    LET seeded == [NewController EXCEPT
                     !.steps = ResolveNextSteps(NewController, bound, EmptyState,
                                                GetAssigned(NewController, bound)),
                     !.status = "Running"]
    IN  CtrlNext(seeded)

Run ==
    /\ pc = "idle"
    /\ boundSteps' = AssignSteps(boundSteps)
    /\ ctrl' = RunStart(boundSteps')
    /\ Continue(ctrl', boundSteps', BindCaches(caches, boundSteps'), stepOffset)
    /\ last' = [NoLast EXCEPT !.base = stepOffset]
    /\ scen' = NoScen
    /\ cacheCall' = NoCall
    /\ estimate' = NoEstimate
    /\ UNCHANGED <<options, parentEstimator>>

\* a form of exactly two steps, both shown unconditionally
LinearForm ==
    /\ \A p \in Props : options.provider[p] <=> p <= 2
    /\ options.showWhen[2] = "always"

\* the script "P1 := v1, Back at P2, P1 := v2 # v1, P2 := w" on a linear form
ScenNext(prop, answer) ==
    IF ~LinearForm THEN NoScen
    ELSE IF scen.n = 1 /\ prop = 2 /\ answer = WIZARD_BACK
         THEN [scen EXCEPT !.n = 2]
    ELSE IF scen.n = 2 /\ prop = 1 /\ IsValidResponse(answer) /\ answer # scen.v1
         THEN [scen EXCEPT !.n = 3, !.v2 = answer]
    ELSE IF scen.n = 3 /\ prop = 2 /\ IsValidResponse(answer)
         THEN [scen EXCEPT !.n = 4, !.w = answer]
    ELSE IF prop = 1 /\ IsValidResponse(answer)
         THEN [NoScen EXCEPT !.n = 1, !.v1 = answer]
    ELSE NoScen

\* the prompt of a bound step settles
Respond(answer) ==
    /\ pc = "prompting"
    /\ ctrl.current \in Props
    /\ LET prop == ctrl.current
           recentItem == IF IsValidResponse(answer) THEN RecentItemOf(answer)
                         ELSE prompter.recentItem
           after == PromptUserAfter(caches[prop], stepOffset, ctrl, answer, recentItem,
                                    prompter.totalSteps)
           res == BoundStepResult(ctrl, boundSteps, prop, answer)
       IN  /\ ctrl' = CtrlNext(CtrlApply(ctrl, res))
           /\ last' = [step |-> prop, response |-> answer, recentItem |-> recentItem,
                       disposed |-> after.disposed,
                       current |-> prompter.steps.current,
                       histLen |-> Len(ctrl.history), queueLen |-> Len(ctrl.steps),
                       first |-> last.step = NoStep,
                       multi |-> last.multi \/ prompter.totalSteps > 1,
                       base |-> last.base,
                       picks |-> IF IsValidResponse(answer)
                                 THEN [last.picks EXCEPT ![prop] = recentItem]
                                 ELSE last.picks,
                       total |-> prompter.steps.total,
                       state |-> IF answer = WIZARD_RETRY THEN ctrl.state
                                 ELSE EmptyState,
                       history |-> IF answer = WIZARD_RETRY THEN ctrl.history
                                   ELSE <<>>,
                       pending |-> IF IsWizardControl(answer) THEN <<>>
                                   ELSE ctrl.steps,
                       revealed |-> IF IsWizardControl(answer) THEN <<>>
                                    ELSE res.nextSteps,
                       shown |-> [last.shown EXCEPT ![prop] =
                                     IF IsValidResponse(answer)
                                     THEN prompter.steps.current ELSE 0],
                       from |-> NoStep]
           /\ scen' = ScenNext(prop, answer)
           /\ Continue(ctrl', boundSteps, [caches EXCEPT ![prop] = after.cache],
                       after.offset)
    /\ cacheCall' = NoCall
    /\ estimate' = NoEstimate
    /\ UNCHANGED <<options, boundSteps, parentEstimator>>

ExitResponses == {ExitTrue, ExitFalse, None} \cup Controls

\* the prompt of the exit-confirmation step settles
RespondExit(answer) ==
    /\ pc = "prompting"
    /\ ctrl.current = ExitStepId
    /\ ctrl' = CtrlNext(CtrlApply(ctrl, ExitStepResult(ctrl, answer)))
    /\ last' = [step |-> ExitStepId, response |-> answer, recentItem |-> None,
                disposed |-> IF DidExit(answer) THEN 1 ELSE 0,
                current |-> prompter.steps.current,
                histLen |-> Len(ctrl.history), queueLen |-> Len(ctrl.steps),
                first |-> FALSE, multi |-> last.multi, base |-> last.base,
                picks |-> last.picks,
                total |-> prompter.steps.total,
                state |-> IF DidExit(answer) THEN EmptyState
                          ELSE ctrl.history[Len(ctrl.history)].state,
                history |-> <<>>, pending |-> <<>>, revealed |-> <<>>,
                shown |-> last.shown,
                from |-> IF DidExit(answer) THEN NoStep
                         ELSE ctrl.history[Len(ctrl.history)].step]
    /\ scen' = NoScen
    /\ Continue(ctrl', boundSteps, caches, stepOffset)
    /\ cacheCall' = NoCall
    /\ estimate' = NoEstimate
    /\ UNCHANGED <<options, boundSteps, parentEstimator>>

Next ==
    \/ \E offset \in Offsets : SetStepOffset(offset)
    \/ Run
    \/ \E answer \in Responses : Respond(answer)
    \/ \E answer \in ExitResponses : RespondExit(answer)

Spec == Init /\ [][Next]_vars

\* the same run with a caller that reads and assigns Wizard.cache at any time
\* it can: before run(), while a prompt is pending, after run() settled
InitCache ==
    /\ Init
    /\ \A p \in Props : options.totalSteps[p] = 1

NextCache ==
    \/ Next
    \/ GetCache
    \/ \E table \in CacheTables : SetCache(table)

SpecCache == InitCache /\ [][NextCache]_vars

\* the run of single-step prompters from the default offset in which run()
\* is called and every prompt settles
\* what the prompts of these runs settle with: the answer "x", another
\* answer, undefined or a signal
SettledResponses == {X, NVals, None} \cup Controls

NextLive ==
    \/ Run
    \/ \E answer \in SettledResponses : Respond(answer)
    \/ \E answer \in {ExitTrue, ExitFalse} : RespondExit(answer)

SpecLive ==
    /\ InitCache
    /\ [][NextLive]_vars
    /\ WF_vars(NextLive)

\* the pending promptControl() rejects: the error leaves promptUser, the
\* step and the controller's run uncaught, and run() rejects at its await
PrompterThrows ==
    /\ pc = "prompting"
    /\ pc' = "rejected"
    /\ prompter' = NoPrompter
    /\ cacheCall' = NoCall
    /\ UNCHANGED <<options, running, caches, boundSteps, stepOffset, ctrl, result,
                   last, scen, estimator, parentEstimator, estimate>>

\* the run with a caller of Wizard.cache and prompters that may throw
NextThrow ==
    \/ NextCache
    \/ PrompterThrows

SpecThrow == InitCache /\ [][NextThrow]_vars

\* public set parentEstimator(estimator)
SetParentEstimator ==
    /\ pc = "idle"
    /\ ~parentEstimator
    /\ parentEstimator' = TRUE
    /\ estimate' = NoEstimate
    /\ UNCHANGED <<options, running, caches, boundSteps, stepOffset, ctrl, prompter,
                   pc, result, last, scen, cacheCall, estimator>>

\* the pending prompter calls the stepEstimator it was configured with
Estimate(response) ==
    /\ pc = "prompting"
    /\ ctrl.current \in Props
    /\ LET e == StepEstimator(ctrl, boundSteps, estimator, ctrl.current,
                              parentEstimator, response)
       IN  /\ estimator' = e.state
           /\ estimate' = [called |-> TRUE, response |-> response, value |-> e.value,
                            before |-> [ctrl |-> ctrl, caches |-> caches,
                                        stepOffset |-> stepOffset]]
    /\ UNCHANGED <<options, running, caches, boundSteps, stepOffset, ctrl, prompter,
                   pc, result, last, scen, cacheCall, parentEstimator>>

\* the forms of the estimator's runs: single-step prompters, no exit
\* prompter, and the third property shown always or while the second is left
\* to its default
EstimateForms ==
    {o \in [showWhen : [Props -> Kinds \cup {"ifDefault"}],
            provider : [Props -> BOOLEAN],
            totalSteps : [Props -> {1}],
            exitPrompter : {FALSE}] :
        /\ o.showWhen[1] = "always"
        /\ o.showWhen[2] \in Kinds
        /\ \E n \in 2..NProps : \A p \in Props : o.provider[p] = (p <= n)
        /\ \A p \in Props : p # 3 => o.showWhen[p] # "ifDefault"
        /\ \A p \in Props : p > 3 => o.showWhen[p] = "always"}

\* a run from the default offset with prompters that ask the estimator while
\* they are pending and a parent wizard that may chain its estimator first
InitEstimate == options \in EstimateForms /\ Constructed

NextEstimate ==
    \/ Run
    \/ \E answer \in SettledResponses : Respond(answer)
    \/ SetParentEstimator
    \/ \E response \in Responses : Estimate(response)

SpecEstimate == InitEstimate /\ [][NextEstimate]_vars

TypeOK ==
    /\ running \in BOOLEAN
    /\ pc \in {"idle", "prompting", "done", "rejected"}
    /\ boundSteps \subseteq Props
    /\ stepOffset[1] \in 0..MaxOffset /\ stepOffset[2] \in 0..MaxOffset

\* ----------------------------------------------------------------- claims
Settled(step, responses) == last.step = step /\ last.response \in responses

Aborted ==
    /\ pc = "done"
    /\ ~result.defined
    /\ ctrl.status = "Aborted"
    /\ ctrl.steps = <<>>
    /\ prompter = NoPrompter

\* C1: when the prompt of a bound step yields Exit or ForceExit and no exit
\* prompter is configured, the pending queue is discarded, no further step is
\* executed (no prompt is pending) and run() resolves with undefined.
C1_ExitAborts ==
    \A p \in Props :
        (Settled(p, {WIZARD_EXIT, WIZARD_FORCE_EXIT}) /\ ~options.exitPrompter) => Aborted

C1_Witness ==
    /\ \E p \in Props : Settled(p, {WIZARD_FORCE_EXIT})
    /\ ~options.exitPrompter
    /\ last.histLen >= 1
    /\ last.queueLen >= 1
    /\ Aborted

\* C2: on a form of two unconditional steps, after P1 := v1, Back at P2,
\* P1 := v2 # v1, P2 := w: the Back led to the prompt of P1, run() resolves
\* with P1 = v2 and P2 = w and nothing of the first attempt, and the cache of
\* P1 has picked equal to the item of the newest answer.
C2_BackThenReanswer ==
    /\ scen.n = 2 => (pc = "prompting" /\ prompter.step = 1)
    /\ scen.n = 4 =>
          /\ pc = "done"
          /\ result.defined
          /\ result.state[1] = scen.v2
          /\ result.state[1] # scen.v1
          /\ result.state[2] = scen.w
          /\ \A p \in Props : p > 2 => result.state[p] = None
          /\ caches[1].picked = RecentItemOf(scen.v2)

C2_Witness ==
    /\ LinearForm
    /\ scen.n = 4
    /\ scen.v1 # scen.v2
    /\ result.defined

\* C3: at completion a property whose step is not part of the final pass (it
\* was left by Back and not asked again) has no value in the controller's
\* state, and in the state run() returns at most its declared default.
C3_NoResidue ==
    (pc = "done" /\ result.defined) =>
        \A q \in Props :
            q \notin HistorySteps(ctrl) =>
                /\ ctrl.state[q] = None
                /\ result.state[q] = SetDefault(q)

C3_Witness ==
    /\ pc = "done"
    /\ result.defined
    /\ options.showWhen[2] = "ifX"
    /\ caches[2].picked # None
    /\ 2 \notin HistorySteps(ctrl)
    /\ result.state[1] \in Values \ {X}
    /\ result.state[2] \notin Values

\* the form {name: always visible, advanced: visible iff name = "x"}
NameAdvancedForm ==
    /\ \A p \in Props : options.provider[p] <=> p <= 2
    /\ options.showWhen[2] = "ifX"

\* C4: on the form {name, advanced iff name = "x"}: after name := "x" the
\* step of advanced is the one executed next, with 2 total steps; after
\* name := "y" advanced is neither pending nor executed and run() completes
\* with name = "y".
C4_ConditionalStep ==
    NameAdvancedForm =>
        /\ Settled(1, {X}) =>
              /\ pc = "prompting"
              /\ prompter.step = 2
              /\ CtrlTotalSteps(ctrl) = 2
              /\ prompter.steps.total = 2 + stepOffset[2]
        /\ Settled(1, Values \ {X}) =>
              /\ pc = "done"
              /\ result.defined
              /\ result.state[1] = last.response
              /\ ~ContainsStep(ctrl, 2)
              /\ result.state[2] \notin Values

C4_Witness ==
    /\ NameAdvancedForm
    /\ Settled(1, {X})
    /\ prompter.step = 2
    /\ prompter.steps.total = 2

C4_WitnessY ==
    /\ NameAdvancedForm
    /\ Settled(1, Values \ {X})
    /\ pc = "done"
    /\ result.state[2] = DefaultValue

Count(seq, step) == Cardinality({i \in 1..Len(seq) : seq[i] = step})

Occurrences(c, step) ==
    Count(c.steps, step) + (IF c.current = step THEN 1 ELSE 0)
        + Cardinality({i \in 1..Len(c.history) : c.history[i].step = step})

\* C5: every bound step occurs at most once across the pending queue, the
\* executing slot and the history; the history shrinks only on a Back signal
\* (Back of a bound step, or a declined exit confirmation), and the same
\* bound step is shown twice in a row only on Retry.
C5_AtMostOnce ==
    /\ \A p \in Props : Occurrences(ctrl, p) <= 1
    /\ Len(ctrl.history) < last.histLen =>
          \/ last.step \in Props /\ last.response = WIZARD_BACK
          \/ last.step = ExitStepId /\ ~DidExit(last.response)
    /\ (pc = "prompting" /\ prompter.step \in Props /\ prompter.step = last.step) =>
          last.response = WIZARD_RETRY

C5_Witness ==
    /\ pc = "prompting"
    /\ Settled(2, {WIZARD_BACK})
    /\ prompter.step = 1
    /\ caches[2].picked # None
    /\ Len(ctrl.steps) >= 1
    /\ \A p \in Props : Occurrences(ctrl, p) <= 1

\* C6: Back from a step with an empty history acts as Exit does: nothing is
\* asked again, the queue is discarded and run() resolves with undefined.
C6_BackAtFirstStep ==
    \A p \in Props : (Settled(p, {WIZARD_BACK}) /\ last.histLen = 0) => Aborted

C6_Witness ==
    /\ Settled(1, {WIZARD_BACK})
    /\ last.histLen = 0
    /\ last.queueLen >= 1
    /\ Aborted

FirstPromptExit == last.first /\ last.response = WIZARD_EXIT /\ ~options.exitPrompter

NeverDisposedOnAnswer ==
    (last.step \in Props /\ (IsValidResponse(last.response) \/ last.response = WIZARD_RETRY))
        => last.disposed = 0

C8_CacheGuard ==
    cacheCall.op # "none" =>
        /\ cacheCall.threw <=> cacheCall.at = "prompting"
        /\ cacheCall.threw => caches = cacheCall.before
        /\ (cacheCall.op = "set" /\ ~cacheCall.threw) => caches = cacheCall.table
        /\ cacheCall.op = "get" => caches = cacheCall.before

C8_Witness ==
    /\ cacheCall.op = "set"
    /\ cacheCall.threw
    /\ cacheCall.at = "prompting"
    /\ cacheCall.table # caches
    /\ \E p \in Props : caches[p].picked # None

C8_WitnessAfter ==
    /\ cacheCall.op = "set"
    /\ ~cacheCall.threw
    /\ cacheCall.at = "done"
    /\ cacheCall.before # caches

\* C9 as stated: with stepOffset set to [a,b] before run(), every prompter is
\* configured with the controller's currentStep + a and totalSteps + b.
C9_Original ==
    (pc = "prompting" /\ prompter.step \in Props) =>
        /\ prompter.steps.current = CtrlCurrentStep(ctrl) + last.base[1]
        /\ prompter.steps.total = CtrlTotalSteps(ctrl) + last.base[2]

\* C9, amended: every prompter is configured with the controller's counters
\* plus the running offset, which is [a+k, b+k] for some k >= 0 and is [a,b]
\* as long as every prompter that settled had totalSteps = 1.
C9_RunningOffset ==
    pc = "prompting" =>
        /\ prompter.steps.current = CtrlCurrentStep(ctrl) + stepOffset[1]
        /\ prompter.steps.total = CtrlTotalSteps(ctrl) + stepOffset[2]
        /\ stepOffset[1] - last.base[1] = stepOffset[2] - last.base[2]
        /\ stepOffset[1] >= last.base[1]
        /\ ~last.multi => stepOffset = last.base

C9_Witness ==
    /\ pc = "prompting"
    /\ last.base = <<1, 2>>
    /\ Len(ctrl.history) >= 1
    /\ prompter.steps.current = CtrlCurrentStep(ctrl) + 1
    /\ prompter.steps.total = CtrlTotalSteps(ctrl) + 2

C9_WitnessMulti ==
    /\ pc = "prompting"
    /\ last.multi
    /\ stepOffset # last.base

\* C10: the cache of a property keeps picked equal to the recentItem of its
\* latest valid answer through Back, Retry and declined exits, and a prompter
\* of that property is seeded with picked, before the implied response.
C10_CacheSurvives ==
    /\ pc # "idle" => \A p \in Props : caches[p].picked = last.picks[p]
    /\ (last.step \in Props /\ IsValidResponse(last.response)) =>
          caches[last.step].picked = RecentItemOf(last.response)
    /\ (pc = "prompting" /\ prompter.step \in Props) =>
          prompter.recentItem =
              IF last.picks[prompter.step] # None THEN last.picks[prompter.step]
              ELSE ImplicitState(prompter.step)

C10_Witness ==
    /\ pc = "prompting"
    /\ Settled(2, {WIZARD_BACK})
    /\ prompter.step = 1
    /\ ImplicitState(1) # None
    /\ caches[1].picked # None
    /\ caches[2].picked # None
    /\ prompter.recentItem = caches[1].picked
    /\ prompter.recentItem # ImplicitState(1)

\* what the estimator of the pending step returns for `response` when it
\* starts from a fresh copy of the state the step was given
FreshEstimate(response) ==
    StepEstimator(ctrl, boundSteps, ctrl.state, ctrl.current, parentEstimator,
                  response).value

\* C11 as stated: an estimator called with a response that is not a valid
\* answer (undefined or a WizardControl) returns 0.
C11_Original ==
    (estimate.called /\ ~IsValidResponse(estimate.response)) => estimate.value = 0

\* C11, amended: an estimator called with a WizardControl returns 0; called
\* with undefined it returns what it returns for the state with the property
\* unset: the steps resolution reveals for it, plus the parent's estimate.
C11_ControlEstimatesZero ==
    estimate.called =>
        /\ IsWizardControl(estimate.response) => estimate.value = 0
        /\ estimate.response = None =>
              estimate.value =
                  Len(ResolveNextSteps(ctrl, boundSteps, ctrl.state, {ctrl.current}))
                    + (IF parentEstimator THEN ParentEstimator(ctrl.state) ELSE 0)

C11_Witness ==
    /\ estimate.called
    /\ estimate.response = WIZARD_BACK
    /\ parentEstimator
    /\ Len(ctrl.history) >= 1
    /\ estimate.value = 0

C11_WitnessUndefined ==
    /\ estimate.called
    /\ estimate.response = None
    /\ estimate.value > 0

\* a branch lists its steps in the form's iteration order
InBranchOrder(branch) ==
    \A i, j \in 1..Len(branch) : i < j => branch[i] < branch[j]

\* C12: the steps a step returns after a valid answer are in branch order and
\* are put, in that order, in front of the steps that were pending, so the
\* step executed next is the first of them and all of them precede every
\* step that was pending; the steps run() adds first are in branch order too.
C12_DepthFirst ==
    /\ (pc = "prompting" /\ last.step = NoStep) =>
          InBranchOrder(<<ctrl.current>> \o ctrl.steps)
    /\ (last.step \in Props /\ IsValidResponse(last.response)) =>
          /\ InBranchOrder(last.revealed)
          /\ IF pc = "prompting"
             THEN <<ctrl.current>> \o ctrl.steps = last.revealed \o last.pending
             ELSE last.revealed = <<>> /\ last.pending = <<>>

C12_Witness ==
    /\ pc = "prompting"
    /\ Settled(1, {X})
    /\ last.revealed = <<2>>
    /\ last.pending = <<3>>
    /\ prompter.step = 2
    /\ ctrl.steps = <<3>>

\* C13: when the prompt of a bound step returns Retry, the step executed next
\* is that same step, and it runs with the state and the history of its
\* previous execution and is shown the same current and total step numbers,
\* whatever the prompter's totalSteps.
C13_RetryNoProgress ==
    \A p \in Props :
        Settled(p, {WIZARD_RETRY}) =>
            /\ pc = "prompting"
            /\ prompter.step = p
            /\ ctrl.state = last.state
            /\ ctrl.history = last.history
            /\ prompter.steps.current = last.current
            /\ prompter.steps.total = last.total

\* Retry of a prompter of several steps: the same step with the same state
\* and history, shown step numbers larger by totalSteps - 1
C13_RetryDrift ==
    \E p \in Props :
        /\ Settled(p, {WIZARD_RETRY})
        /\ options.totalSteps[p] > 1
        /\ prompter.step = p
        /\ ctrl.state = last.state
        /\ ctrl.history = last.history
        /\ prompter.steps.current = last.current + options.totalSteps[p] - 1
        /\ prompter.steps.total = last.total + options.totalSteps[p] - 1

\* C14: with an exit prompter configured, Exit from the prompt of a bound
\* step leaves the state as the step found it and the exit-confirmation step
\* is the one executed next; when that is confirmed (true, Exit, ForceExit)
\* run() resolves with undefined, and otherwise the next prompt is that of
\* the property Exit was asked on, with the state that step ran with.
C14_ExitConfirmation ==
    /\ \A p \in Props :
          (Settled(p, {WIZARD_EXIT}) /\ options.exitPrompter) =>
              /\ pc = "prompting"
              /\ prompter.step = ExitStepId
              /\ ctrl.history # <<>>
              /\ ctrl.history[Len(ctrl.history)].step = p
              /\ ctrl.state = ctrl.history[Len(ctrl.history)].state
    /\ (last.step = ExitStepId /\ DidExit(last.response)) => Aborted
    /\ (last.step = ExitStepId /\ ~DidExit(last.response)) =>
          /\ pc = "prompting"
          /\ last.from \in Props
          /\ prompter.step = last.from
          /\ ctrl.state = last.state
          /\ Len(ctrl.history) = last.histLen - 1

C14_Witness ==
    /\ pc = "prompting"
    /\ Settled(ExitStepId, {ExitFalse})
    /\ last.from = 2
    /\ prompter.step = 2
    /\ ctrl.state[1] \in Values
    /\ Len(ctrl.steps) >= 1

C14_WitnessConfirmed ==
    /\ Settled(ExitStepId, {ExitTrue})
    /\ last.histLen >= 2
    /\ Aborted

\* C15: a call of the estimator leaves the controller (state, queue,
\* history), the step caches and the step offset as they were, and leaves the
\* estimator's own copy equal to the state the step was given, so that after
\* any calls the value returned for a response is the one a fresh estimator
\* returns for it.
C15_EstimatorPure ==
    /\ (pc = "prompting" /\ ctrl.current \in Props) => estimator = ctrl.state
    /\ estimate.called =>
          /\ estimate.before.ctrl = ctrl
          /\ estimate.before.caches = caches
          /\ estimate.before.stepOffset = stepOffset
          /\ estimate.value = FreshEstimate(estimate.response)

C15_Witness ==
    /\ estimate.called
    /\ estimate.response = X
    /\ estimate.value = 1
    /\ ~parentEstimator
    /\ ctrl.current = 1
    /\ ctrl.steps # <<>>
    /\ caches[2].picked # None
    /\ estimator = ctrl.state

\* the steps resolution reveals once the pending step's property is `response`,
\* against the properties assigned now together with that property
RevealedFor(response) ==
    ResolveNextSteps(ctrl, boundSteps, [ctrl.state EXCEPT ![ctrl.current] = response],
                     GetAssigned(ctrl, boundSteps) \cup {ctrl.current})

\* the follow-up steps the pending step returns if its prompt gives `response`
EnqueuedFor(response) ==
    BoundStepResult(ctrl, boundSteps, ctrl.current, response).nextSteps

\* C16: for a valid response r the estimator of property p returns the number
\* of steps resolution reveals for the state with p := r against the assigned
\* properties together with p, plus the parent's estimate when there is one;
\* without a parent that is the number of steps enqueued when r is answered.
C16_EstimateIsReveal ==
    (estimate.called /\ IsValidResponse(estimate.response)) =>
        /\ estimate.value =
              Len(RevealedFor(estimate.response))
                + (IF parentEstimator
                   THEN ParentEstimator([ctrl.state EXCEPT
                                           ![ctrl.current] = estimate.response])
                   ELSE 0)
        /\ ~parentEstimator => estimate.value = Len(EnqueuedFor(estimate.response))

\* the estimate exceeds what answering enqueues: the third property counts
\* as visible for the estimator, which takes the pending second property for
\* unassigned, and is not visible for the step
C16_Overestimate ==
    /\ estimate.called
    /\ IsValidResponse(estimate.response)
    /\ ~parentEstimator
    /\ ctrl.current = 1
    /\ 2 \in SeqToSet(ctrl.steps)
    /\ options.showWhen[3] = "ifDefault"
    /\ estimate.value = 1
    /\ EnqueuedFor(estimate.response) = <<>>

\* C17: when a property whose latest prompt was answered validly is prompted
\* again (Back returned to it), the offset saved in its cache is the running
\* offset again and its prompter is shown the current-step number it was
\* shown that time, whatever the totalSteps of the prompters before and
\* after it.
C17_ResumeSameNumber ==
    (pc = "prompting" /\ prompter.step \in Props /\ last.shown[prompter.step] # 0) =>
        /\ last.step \in Props /\ last.response = WIZARD_BACK
        /\ caches[prompter.step].stepOffset = stepOffset
        /\ prompter.steps.current = last.shown[prompter.step]

C17_Witness ==
    /\ pc = "prompting"
    /\ Settled(3, {WIZARD_BACK})
    /\ prompter.step = 2
    /\ options.totalSteps[1] = 2
    /\ options.totalSteps[2] = 2
    /\ last.shown[2] = 3
    /\ prompter.steps.current = 3

\* C20: ForceExit from the prompt of a bound step makes run() resolve with
\* undefined at once, no prompt shown after it, also with an exit prompter
\* configured; the exit-confirmation step is shown only after a bound step's
\* prompt returned the Exit constant.
C20_ForceExitDirect ==
    /\ \A p \in Props : Settled(p, {WIZARD_FORCE_EXIT}) => Aborted
    /\ (pc = "prompting" /\ prompter.step = ExitStepId) =>
          /\ options.exitPrompter
          /\ last.step \in Props
          /\ last.response = WIZARD_EXIT

C20_Witness ==
    /\ Settled(2, {WIZARD_FORCE_EXIT})
    /\ options.exitPrompter
    /\ last.histLen = 1
    /\ last.queueLen >= 1
    /\ Aborted

\* C19: running is true only while run() is in progress; whenever it is not,
\* also after run() rejected with the error of a prompter, reading and
\* assigning Wizard.cache do not throw.
C19_RunningOnlyInRun ==
    /\ running => pc = "prompting"
    /\ (cacheCall.op # "none" /\ cacheCall.at # "prompting") => ~cacheCall.threw

\* run() rejected, running is still true and the assignment of the cache
\* throws and is dropped
C19_StuckRunning ==
    /\ pc = "rejected"
    /\ running
    /\ cacheCall.op = "set"
    /\ cacheCall.at = "rejected"
    /\ cacheCall.threw
    /\ cacheCall.table # caches

\* the prompt that settled last went back or asked again
NavSettled ==
    \/ last.step \in Props /\ last.response \in {WIZARD_BACK, WIZARD_RETRY}
    \/ last.step = ExitStepId /\ ~DidExit(last.response)

\* run() resolved: no step is pending; Completed with the accumulated state,
\* the defaults applied, or Aborted with undefined
Resolved ==
    /\ ctrl.steps = <<>>
    /\ prompter = NoPrompter
    /\ ~running
    /\ ctrl.status \in {"Completed", "Aborted"}
    /\ ctrl.status = "Aborted" => ~result.defined
    /\ ctrl.status = "Completed" =>
          /\ result.defined
          /\ result.state = ApplyDefaults(ctrl.state, GetAssigned(ctrl, boundSteps))
          /\ \A p \in HistorySteps(ctrl) :
                ctrl.state[p] # None => caches[p].picked = RecentItemOf(ctrl.state[p])

\* a step that gave no signal is one more executed step, and the executed
\* steps are distinct bound steps
Progress ==
    /\ Len(ctrl.history) <= Cardinality(boundSteps)
    /\ (last.step \in Props /\ ~IsWizardControl(last.response) /\ pc = "prompting") =>
          Len(ctrl.history) = last.histLen + 1

\* C18: when every prompt settles, run() resolves unless prompts go back or
\* ask again for ever; it resolves Completed with the accumulated state or
\* Aborted with undefined, with nothing pending, and until then a prompt is
\* pending; each answer adds an executed step, of which there are at most as
\* many as bound properties.
C18_Termination ==
    /\ [](pc = "done" => Resolved)
    /\ [](pc # "done" => (pc = "idle" \/ ctrl.status = "Running"))
    /\ []Progress
    /\ ([]<>NavSettled \/ <>(pc = "done"))

C18_Witness ==
    /\ pc = "done"
    /\ ctrl.status = "Completed"
    /\ result.defined
    /\ caches[2].picked # None
    /\ 2 \notin HistorySteps(ctrl)
    /\ Len(ctrl.history) >= 2

====
